---- MODULE Spec2Model ----
(***************************************************************************)
(* Automated Candidate Interview Agent: the speaker-selection function of  *)
(* app.py (custom_speaker_selection), the generation wrappers              *)
(* (GeminiWrapper.generate_content, GeminiAssistantAgent.generate_reply)   *)
(* and the Streamlit session that main() drives.                           *)
(*                                                                         *)
(* A message content is a Python string.  It is modelled as a sequence of  *)
(* words; `x in s` (substring search) is "some word of s is x",            *)
(* s.lower() lowers every word, s.startswith(p) looks at the first word,   *)
(* and an f-string is the concatenation of its parts.                      *)
(***************************************************************************)
EXTENDS Naturals, Sequences, FiniteSets

VARIABLES
    messages,           \* groupchat.messages handed to custom_speaker_selection
    last_speaker,       \* the last_speaker argument
    next_speaker,       \* what the call returned ("not_called" before the call)
    first_call,         \* the first call of the speaker selection (empty before it)
    selections,         \* how many calls of the speaker selection were made
    chat_history,       \* st.session_state.chat_history
    interview_started,  \* st.session_state.interview_started
    calls,              \* the generate_content calls of the latest run of main()
    event,              \* the user event and widget values of the latest run of main()
    reply,              \* the latest generate_reply call (empty before any)
    constructed,        \* the latest GeminiAssistantAgent(...) call (empty before any)
    heard,              \* the latest listen_to_user call (empty before any)
    spoken,             \* the latest speak_to_user call (empty before any)
    _recording,         \* voice_module._recording
    _audio_data,        \* voice_module._audio_data: None or the audio captured
    _stop_listening,    \* voice_module._stop_listening: None or the stopper
    voice_log,          \* the start_listening and stop_listening calls made
    in_flight,          \* the generate_content calls made and not yet returned
    service,            \* the Gemini service: "up", "down", "flaky" or "closing"
    google_api_key      \* os.environ.get("GOOGLE_API_KEY")

\* what a call of the speaker selection is given and gives back
arbiter_vars == <<messages, last_speaker, next_speaker, first_call, selections>>
\* st.session_state and what the latest run of main() did
session_vars == <<chat_history, interview_started, calls, event>>
\* results of calls made on the agents and the voice module directly
unit_vars == <<reply, constructed, heard, spoken>>
\* the process environment and the remote service
env_vars == <<service, google_api_key>>

\* the module-level recording state of voice_module.py and the calls made
\* of start_listening and stop_listening
recorder_vars == <<_recording, _audio_data, _stop_listening, voice_log>>

\* the generation calls of a run of main() that have not returned yet
step_vars == <<in_flight>>

vars == <<arbiter_vars, session_vars, unit_vars, env_vars, recorder_vars, step_vars>>

(***************************************************************************)
(* Bounds                                                                  *)
(***************************************************************************)
\* longest transcript handed to the speaker selection
MaxMsgs == 2
\* longest transcript on which the speaker selection is called repeatedly
PurityMsgs == 1
\* most calls of the speaker selection made on one groupchat
MaxSelections == 3
\* most calls of start_listening and stop_listening made in one run
MaxVoiceCalls == 4
\* longest chat_history of the session explored with free inputs
MaxHistory == 7
\* candidate rounds explored by the long session (one above max_round)
LongRounds == 51

(***************************************************************************)
(* Strings                                                                 *)
(***************************************************************************)
\* str.lower() on one word (app.py:219)
LowerWord(w) ==
    CASE w = "Resume" -> "resume"
      [] w = "RESUME" -> "resume"
      [] w = "Job Description" -> "job description"
      [] w = "JOB DESCRIPTION" -> "job description"
      [] w = "TERMINATE" -> "terminate"
      [] w = "Error: " -> "error: "
      [] w = "Resume Analysis:" -> "resume analysis:"
      [] w = "Interview Questions:" -> "interview questions:"
      [] OTHER -> w

\* a lower() that forgets to lower: the match becomes case-sensitive
Lower_CaseSensitive(s) == s

\* last_message.lower() (app.py:219)
Lower(s) == [i \in DOMAIN s |-> LowerWord(s[i])]

\* `x in w` for one word w: x is w or a proper part of w
WordContains(w, x) ==
    \/ w = x
    \/ x = "resume" /\ w = "resume analysis:"
    \/ x = "Resume" /\ w = "Resume Analysis:"

\* `x in s` for strings (app.py:219, app.py:224)
Contains(s, x) == \E i \in DOMAIN s : WordContains(s[i], x)

\* a startswith that asks for the whole string
StartsWith_WholeString(s, p) == s = <<p>>

\* s.startswith(p) (app.py:333, test_integration.py:223)
StartsWith(s, p) == Len(s) > 0 /\ s[1] = p

(***************************************************************************)
(* Agents (app.py:122-198) and the group chat (app.py:252-262)             *)
(***************************************************************************)
resume_analyzer_agent == "ResumeAnalyzerAgent"
question_generator_agent == "QuestionGeneratorAgent"
interviewer_agent == "InterviewerAgent"
evaluator_agent == "EvaluatorAgent"
user_proxy_agent == "CandidateAgent"
\* Python's None
None == "None"
\* an agent object that is none of the five
other_agent == "OtherAgent"

\* group_chat.agents
agents == {user_proxy_agent, resume_analyzer_agent, question_generator_agent,
           interviewer_agent, evaluator_agent}

\* group_chat.max_round
max_round == 50

\* the GroupChat object of app.py:252-262 holding a transcript
GroupChat(msgs) == [agents |-> agents, messages |-> msgs, max_round |-> max_round]

(***************************************************************************)
(* custom_speaker_selection (app.py:201-249)                               *)
(***************************************************************************)
\* messages[-1]["content"] if messages else ""
LastMessage(msgs) == IF msgs # <<>> THEN msgs[Len(msgs)].content ELSE <<>>

\* the branch taken when last_speaker is None or the candidate (app.py:218-230);
\* its elif compares last_speaker with the interviewer again
InitialOrCandidate(speaker, last_message) ==
    IF Contains(Lower(last_message), "resume")
       /\ Contains(Lower(last_message), "job description")
    THEN resume_analyzer_agent
    ELSE IF speaker = interviewer_agent
         THEN (IF Contains(last_message, "TERMINATE")
               THEN evaluator_agent
               ELSE user_proxy_agent)
         ELSE interviewer_agent

\* the evaluator branch is missing: the evaluator falls to the default
Selection_NoEvaluatorBranch(speaker, groupchat) ==
    LET last_message == LastMessage(groupchat.messages)
    IN  IF speaker = None \/ speaker = user_proxy_agent
        THEN InitialOrCandidate(speaker, last_message)
        ELSE IF speaker = resume_analyzer_agent THEN question_generator_agent
        ELSE IF speaker = question_generator_agent THEN interviewer_agent
        ELSE IF speaker = interviewer_agent THEN user_proxy_agent
        ELSE user_proxy_agent

\* the keyword check runs before the dispatch on last_speaker
Selection_KeywordsFirst(speaker, groupchat) ==
    LET last_message == LastMessage(groupchat.messages)
    IN  IF Contains(Lower(last_message), "resume")
           /\ Contains(Lower(last_message), "job description")
        THEN resume_analyzer_agent
        ELSE IF speaker = None \/ speaker = user_proxy_agent THEN interviewer_agent
        ELSE IF speaker = resume_analyzer_agent THEN question_generator_agent
        ELSE IF speaker = question_generator_agent THEN interviewer_agent
        ELSE IF speaker = interviewer_agent THEN user_proxy_agent
        ELSE IF speaker = evaluator_agent THEN None
        ELSE user_proxy_agent

\* the question generator hands the floor to the candidate, not the interviewer
Selection_GeneratorToCandidate(speaker, groupchat) ==
    LET last_message == LastMessage(groupchat.messages)
    IN  IF speaker = None \/ speaker = user_proxy_agent
        THEN InitialOrCandidate(speaker, last_message)
        ELSE IF speaker = resume_analyzer_agent THEN question_generator_agent
        ELSE IF speaker = question_generator_agent THEN user_proxy_agent
        ELSE IF speaker = interviewer_agent THEN user_proxy_agent
        ELSE IF speaker = evaluator_agent THEN None
        ELSE user_proxy_agent

\* the interviewer branch itself looks for TERMINATE and goes to the evaluator
Selection_TerminateAfterInterviewer(speaker, groupchat) ==
    LET last_message == LastMessage(groupchat.messages)
    IN  IF speaker = None \/ speaker = user_proxy_agent
        THEN InitialOrCandidate(speaker, last_message)
        ELSE IF speaker = resume_analyzer_agent THEN question_generator_agent
        ELSE IF speaker = question_generator_agent THEN interviewer_agent
        ELSE IF speaker = interviewer_agent
             THEN (IF Contains(last_message, "TERMINATE")
                   THEN evaluator_agent
                   ELSE user_proxy_agent)
        ELSE IF speaker = evaluator_agent THEN None
        ELSE user_proxy_agent

\* a selection with a memory: once a call has returned the analyzer, later
\* calls send the seed to the interviewer
Selection_AnalyzerOnlyOnce(speaker, groupchat) ==
    LET last_message == LastMessage(groupchat.messages)
    IN  IF speaker = None \/ speaker = user_proxy_agent
        THEN (IF first_call # <<>> /\ first_call[1].result = resume_analyzer_agent
              THEN interviewer_agent
              ELSE InitialOrCandidate(speaker, last_message))
        ELSE IF speaker = resume_analyzer_agent THEN question_generator_agent
        ELSE IF speaker = question_generator_agent THEN interviewer_agent
        ELSE IF speaker = interviewer_agent THEN user_proxy_agent
        ELSE IF speaker = evaluator_agent THEN None
        ELSE user_proxy_agent

\* a selection without the `if messages` guard: messages[-1] raises IndexError
\* on the empty list
Selection_NoEmptyGuard(speaker, groupchat) ==
    IF groupchat.messages = <<>>
    THEN "IndexError"
    ELSE LET last_message == LastMessage(groupchat.messages)
         IN  IF speaker = None \/ speaker = user_proxy_agent
             THEN InitialOrCandidate(speaker, last_message)
             ELSE IF speaker = resume_analyzer_agent THEN question_generator_agent
             ELSE IF speaker = question_generator_agent THEN interviewer_agent
             ELSE IF speaker = interviewer_agent THEN user_proxy_agent
             ELSE IF speaker = evaluator_agent THEN None
             ELSE user_proxy_agent

\* a selection whose default case hands the turn to the interviewer
Selection_DefaultInterviewer(speaker, groupchat) ==
    LET last_message == LastMessage(groupchat.messages)
    IN  IF speaker = None \/ speaker = user_proxy_agent
        THEN InitialOrCandidate(speaker, last_message)
        ELSE IF speaker = resume_analyzer_agent THEN question_generator_agent
        ELSE IF speaker = question_generator_agent THEN interviewer_agent
        ELSE IF speaker = interviewer_agent THEN user_proxy_agent
        ELSE IF speaker = evaluator_agent THEN None
        ELSE interviewer_agent

\* a selection whose TERMINATE test is alive: a message holding TERMINATE
\* and not the two markers sends None and the candidate to the evaluator
Selection_LiveTerminateBranch(speaker, groupchat) ==
    LET last_message == LastMessage(groupchat.messages)
    IN  IF speaker = None \/ speaker = user_proxy_agent
        THEN (IF Contains(Lower(last_message), "resume")
                 /\ Contains(Lower(last_message), "job description")
              THEN resume_analyzer_agent
              ELSE IF Contains(last_message, "TERMINATE")
                   THEN evaluator_agent
                   ELSE interviewer_agent)
        ELSE IF speaker = resume_analyzer_agent THEN question_generator_agent
        ELSE IF speaker = question_generator_agent THEN interviewer_agent
        ELSE IF speaker = interviewer_agent THEN user_proxy_agent
        ELSE IF speaker = evaluator_agent THEN None
        ELSE user_proxy_agent

custom_speaker_selection(speaker, groupchat) ==
    LET last_message == LastMessage(groupchat.messages)
    IN  IF speaker = None \/ speaker = user_proxy_agent
        THEN InitialOrCandidate(speaker, last_message)
        ELSE IF speaker = resume_analyzer_agent THEN question_generator_agent
        ELSE IF speaker = question_generator_agent THEN interviewer_agent
        ELSE IF speaker = interviewer_agent THEN user_proxy_agent
        ELSE IF speaker = evaluator_agent THEN None
        ELSE user_proxy_agent

(***************************************************************************)
(* Calling the speaker selection on a transcript, as                       *)
(* test_custom_speaker_selection_logic does with a mock group chat         *)
(***************************************************************************)
\* contents a turn may carry
SampleContents ==
    { <<"ok">>,
      <<"Resume", "ok", "JOB DESCRIPTION">>,
      <<"RESUME">>,
      <<"job description", "ok">>,
      <<"ok", "TERMINATE">>,
      <<"resume", "Job Description", "TERMINATE">>,
      <<"terminate">> }

\* a turn of the transcript: who spoke and what
Turns == [name : agents, content : SampleContents]

\* every transcript of at most MaxMsgs turns
Transcripts == UNION { [1..n -> Turns] : n \in 0..MaxMsgs }

\* every value last_speaker may take
LastSpeakers == agents \cup {None, other_agent}

\* the widget values and the event seen by one run of main()
Event(kind, candidate_name, resume_file, job_description, user_input) ==
    [kind |-> kind, candidate_name |-> candidate_name, resume_file |-> resume_file,
     job_description |-> job_description, user_input |-> user_input]

\* st.file_uploader returned no file
NoFile == [uploaded |-> FALSE, size |-> 0]

\* no run of main() yet
NoEvent == Event("none", <<>>, NoFile, <<>>, <<>>)

InitSession ==
    /\ chat_history = <<>>
    /\ interview_started = FALSE
    /\ calls = <<>>
    /\ event = NoEvent
    /\ reply = <<>>
    /\ constructed = <<>>
    /\ heard = <<>>
    /\ spoken = <<>>
    /\ first_call = <<>>
    /\ selections = 0
    /\ _recording = FALSE
    /\ _audio_data = None
    /\ _stop_listening = None
    /\ voice_log = <<>>
    /\ in_flight = <<>>

InitArbiter ==
    /\ messages \in Transcripts
    /\ last_speaker \in LastSpeakers
    /\ next_speaker = "not_called"
    /\ service = "up"
    /\ google_api_key = "valid-key"
    /\ InitSession

\* next_speaker = app.custom_speaker_selection(last_speaker, mock_groupchat)
SelectSpeaker ==
    /\ next_speaker = "not_called"
    /\ next_speaker' = custom_speaker_selection(last_speaker, GroupChat(messages))
    /\ first_call' = <<[last_speaker |-> last_speaker, messages |-> messages,
                        result |-> next_speaker']>>
    /\ selections' = 1
    /\ UNCHANGED <<messages, last_speaker, session_vars, unit_vars, env_vars, recorder_vars, step_vars>>

NextArbiter == SelectSpeaker

SpecArbiter == InitArbiter /\ [][NextArbiter]_vars

(***************************************************************************)
(* Repeated calls on one groupchat, as test_custom_speaker_selection_logic *)
(* makes them: the same mock_groupchat, one last speaker after another     *)
(***************************************************************************)
\* every transcript of at most PurityMsgs turns
ShortTranscripts == UNION { [1..n -> Turns] : n \in 0..PurityMsgs }

InitPurity ==
    /\ messages \in ShortTranscripts
    /\ last_speaker \in LastSpeakers
    /\ next_speaker = "not_called"
    /\ service = "up"
    /\ google_api_key = "valid-key"
    /\ InitSession

\* a further call on the same groupchat
SelectSpeakerAgain(speaker) ==
    /\ next_speaker # "not_called"
    /\ selections < MaxSelections
    /\ last_speaker' = speaker
    /\ next_speaker' = custom_speaker_selection(speaker, GroupChat(messages))
    /\ selections' = selections + 1
    /\ UNCHANGED <<messages, first_call, session_vars, unit_vars, env_vars, recorder_vars, step_vars>>

NextPurity ==
    \/ SelectSpeaker
    \/ \E speaker \in LastSpeakers : SelectSpeakerAgain(speaker)

SpecPurity == InitPurity /\ [][NextPurity]_vars

(***************************************************************************)
(* The Gemini service and the two wrappers around it                       *)
(***************************************************************************)
\* a call that returned v / a call that raised exception e
Return(v) == [kind |-> "return", value |-> v]
Raise(e) == [kind |-> "raise", value |-> e]

\* response.text of a call that succeeds
Replies == { <<"reply">> }

\* str(e) of a call that fails
Causes == { <<"quota exceeded">> }

\* response.text of a call whose answer closes the interview, as the system
\* message of the interviewer asks it to (app.py:165-176)
ClosingReplies == { <<"Thank you.", "TERMINATE">> }

\* what model.generate_content(prompt) may do while the service is in state
\* svc; in state "closing" it answers, and some answers hold TERMINATE
Outcomes(svc) ==
    {[raises |-> FALSE, payload |-> t] :
        t \in IF svc = "down" THEN {}
              ELSE IF svc = "closing" THEN Replies \cup ClosingReplies
              ELSE Replies}
    \cup
    {[raises |-> TRUE, payload |-> c] :
        c \in IF svc = "up" \/ svc = "closing" THEN {} ELSE Causes}

\* model.generate_content(prompt); response.text inside the try block
CallService(prompt, outcome) ==
    IF outcome.raises THEN Raise(outcome.payload) ELSE Return(outcome.payload)

\* generate_content without its try/except: the exception escapes
generate_content_NoCatch(prompt, outcome) == CallService(prompt, outcome)

\* GeminiWrapper.generate_content (app.py:69-101)
generate_content(prompt, outcome) ==
    LET r == CallService(prompt, outcome)
    IN  IF r.kind = "raise"
        THEN Return(<<"Error: ">> \o r.value)
        ELSE r

\* GeminiAssistantAgent._format_messages_for_gemini (custom_agents.py:129-155);
\* the turns carry no "role" key, so message.get("role", "user") is "user"
RECURSIVE FormatTurns(_)
FormatTurns(msgs) ==
    IF msgs = <<>> THEN <<>>
    ELSE <<"User: ">> \o Head(msgs).content \o FormatTurns(Tail(msgs))

_format_messages_for_gemini(agent, msgs) ==
    <<"System: ", agent>> \o FormatTurns(msgs) \o <<"Assistant: ">>

\* GeminiAssistantAgent.generate_reply (custom_agents.py:85-127)
generate_reply(agent, msgs, outcome) ==
    LET prompt == _format_messages_for_gemini(agent, msgs)
        r == CallService(prompt, outcome)
    IN  IF r.kind = "raise"
        THEN Return(<<"Error: ">> \o r.value)
        ELSE r

\* the four agents built on GeminiAssistantAgent (app.py:122-192)
GeminiAgents == {resume_analyzer_agent, question_generator_agent,
                 interviewer_agent, evaluator_agent}

\* the value of GOOGLE_API_KEY in the .env file shipped as a template
placeholder_api_key == "YOUR_GEMINI_API_KEY_HERE"

\* os.environ.get("GOOGLE_API_KEY"): unset, empty, the placeholder, or a key
ApiKeys == {None, "", placeholder_api_key, "valid-key"}

\* a constructor that only tests for a missing key: the placeholder passes
GeminiAssistantAgent_AcceptsPlaceholder(name, api_key) ==
    IF api_key = None \/ api_key = ""
    THEN Raise(<<"ValueError", "GOOGLE_API_KEY not found or not set">>)
    ELSE Return(<<name>>)

\* GeminiAssistantAgent.__init__ (custom_agents.py:37-85): the agent, or the
\* ValueError of custom_agents.py:80-81
GeminiAssistantAgent(name, api_key) ==
    IF (api_key = None \/ api_key = "") \/ api_key = placeholder_api_key
    THEN Raise(<<"ValueError", "GOOGLE_API_KEY not found or not set">>)
    ELSE Return(<<name>>)

\* the module-level statements of app.py run to the end: the four agents of
\* app.py:122-192 are constructed
LoadsModule(api_key) ==
    \A name \in GeminiAgents : GeminiAssistantAgent(name, api_key).kind = "return"

\* main() gets past st.stop() (app.py:286-288)
ApiKeyConfigured(api_key) ==
    ~((api_key = None \/ api_key = "") \/ api_key = placeholder_api_key)

\* a run of the script reaches the body of main()
RunsMain == LoadsModule(google_api_key) /\ ApiKeyConfigured(google_api_key)

\* GeminiAssistantAgent(name=name, ...) called on its own
\* (test_integration.py:181-207)
ConstructAgent(name) ==
    /\ constructed' = <<[name |-> name,
                         result |-> GeminiAssistantAgent(name, google_api_key)]>>
    /\ UNCHANGED <<arbiter_vars, session_vars, reply, heard, spoken, env_vars, recorder_vars, step_vars>>

\* reply = agent.generate_reply(msgs), on an agent that could be constructed
GenerateReply(agent, msgs, outcome) ==
    /\ GeminiAssistantAgent(agent, google_api_key).kind = "return"
    /\ reply' = <<[agent |-> agent, raised |-> outcome.raises,
                  result |-> generate_reply(agent, msgs, outcome)]>>
    /\ UNCHANGED <<arbiter_vars, session_vars, constructed, heard, spoken, env_vars, recorder_vars, step_vars>>

(***************************************************************************)
(* main() (app.py:276-612): one run of the script per user event.          *)
(* When a run reaches the body of main(), GOOGLE_API_KEY is set and        *)
(* gemini_wrapper is a GeminiWrapper (app.py:110-111).                     *)
(***************************************************************************)
\* s.strip(): leading and trailing blanks removed
RECURSIVE LStrip(_)
LStrip(s) == IF s # <<>> /\ Head(s) = " " THEN LStrip(Tail(s)) ELSE s

RECURSIVE RStrip(_)
RStrip(s) ==
    IF s # <<>> /\ s[Len(s)] = " " THEN RStrip(SubSeq(s, 1, Len(s) - 1)) ELSE s

Strip(s) == RStrip(LStrip(s))

\* n copies of character c
Repeat(c, n) == [i \in 1..n |-> c]

\* shortest candidate name accepted (app.py:440)
MinNameLen == 2
\* shortest job description accepted (app.py:450)
MinJobDescriptionLen == 50
\* largest resume accepted, 10MB (app.py:445)
MaxResumeBytes == 10 * 1024 * 1024

\* values of the three sidebar inputs
CandidateNames == { <<>>, <<" ">>, <<"A">>, <<"A", "l">>, <<" ", "B", "o", " ">> }
ResumeFiles == {NoFile} \cup
    {[uploaded |-> TRUE, size |-> n] : n \in {1, MaxResumeBytes, MaxResumeBytes + 1}}
JobDescriptions ==
    { <<>>, Repeat(" ", 3), Repeat("x", MinJobDescriptionLen - 1),
      <<" ">> \o Repeat("x", MinJobDescriptionLen) }

\* a validation that never looks at the job description
ValidationErrors_NoJobDescriptionCheck(candidate_name, resume_file, job_description) ==
    (IF candidate_name = <<>> \/ Strip(candidate_name) = <<>>
     THEN <<"Candidate name is required">>
     ELSE IF Len(Strip(candidate_name)) < MinNameLen
          THEN <<"Candidate name must be at least 2 characters long">>
          ELSE <<>>)
    \o
    (IF ~resume_file.uploaded
     THEN <<"Resume file is required">>
     ELSE IF resume_file.size > MaxResumeBytes
          THEN <<"Resume file must be smaller than 10MB">>
          ELSE <<>>)

\* validation_errors of app.py:436-451
ValidationErrors(candidate_name, resume_file, job_description) ==
    (IF candidate_name = <<>> \/ Strip(candidate_name) = <<>>
     THEN <<"Candidate name is required">>
     ELSE IF Len(Strip(candidate_name)) < MinNameLen
          THEN <<"Candidate name must be at least 2 characters long">>
          ELSE <<>>)
    \o
    (IF ~resume_file.uploaded
     THEN <<"Resume file is required">>
     ELSE IF resume_file.size > MaxResumeBytes
          THEN <<"Resume file must be smaller than 10MB">>
          ELSE <<>>)
    \o
    (IF job_description = <<>> \/ Strip(job_description) = <<>>
     THEN <<"Job description is required">>
     ELSE IF Len(Strip(job_description)) < MinJobDescriptionLen
          THEN <<"Job description must be at least 50 characters long">>
          ELSE <<>>)

\* an entry of chat_history
Entry(role, content) == [role |-> role, content |-> content]

\* the record kept of one generate_content call: where main() made it, whether
\* the service raised, what the wrapper gave back, and the index of the
\* chat_history entry built from it (0: none)
Call(site, outcome, result, turn) ==
    [site |-> site, raised |-> outcome.raises, result |-> result, turn |-> turn]

\* a start handler that does not look at interview_started
StartHandled_WhileStarted(start_button, started) == start_button

\* `if start_button and not st.session_state.interview_started` (app.py:433)
StartHandled(start_button, started) == start_button /\ ~started

\* "Start Interview" clicked while no interview runs (app.py:433-546)
StartInterview(candidate_name, resume_file, job_description, o1, o2) ==
    /\ RunsMain
    /\ StartHandled(TRUE, interview_started)
    /\ UNCHANGED <<arbiter_vars, unit_vars, env_vars, recorder_vars, step_vars>>
    /\ event' = Event("start", candidate_name, resume_file, job_description, <<>>)
    /\ IF ValidationErrors(candidate_name, resume_file, job_description) # <<>>
       THEN /\ calls' = <<>>
            /\ UNCHANGED <<chat_history, interview_started>>
       ELSE LET resume_text == <<"Sample resume text for ">> \o candidate_name
                h1 == Append(chat_history,
                        Entry("system",
                              <<"Interview started for candidate: ">> \o candidate_name))
                analysis_prompt == <<"Resume: ">> \o resume_text
                                   \o <<"Job Description: ">> \o job_description
                r1 == generate_content(analysis_prompt, o1)
            IN  IF r1.kind = "raise"
                THEN /\ chat_history' = h1
                     /\ interview_started' = FALSE
                     /\ calls' = <<Call("analysis", o1, r1, 0)>>
                ELSE LET h2 == Append(h1,
                                 Entry("assistant", <<"Resume Analysis:">> \o r1.value))
                         questions_prompt == <<"Based on this analysis: ">> \o r1.value
                         r2 == generate_content(questions_prompt, o2)
                     IN  IF r2.kind = "raise"
                         THEN /\ chat_history' = h2
                              /\ interview_started' = FALSE
                              /\ calls' = <<Call("analysis", o1, r1, Len(h2)),
                                            Call("questions", o2, r2, 0)>>
                         ELSE /\ chat_history' = Append(h2,
                                    Entry("assistant",
                                          <<"Interview Questions:">> \o r2.value))
                              /\ interview_started' = TRUE
                              /\ calls' = <<Call("analysis", o1, r1, Len(h2)),
                                            Call("questions", o2, r2, Len(h2) + 1)>>

\* "Start Interview" clicked while an interview runs: the run of main() skips
\* the block of app.py:433-546, and st.chat_input has nothing to give
StartIgnored(candidate_name, resume_file, job_description) ==
    /\ RunsMain
    /\ ~StartHandled(TRUE, interview_started)
    /\ event' = Event("start_ignored", candidate_name, resume_file, job_description, <<>>)
    /\ calls' = <<>>
    /\ UNCHANGED <<arbiter_vars, unit_vars, env_vars, recorder_vars, step_vars,
                   chat_history, interview_started>>

\* a chat input shown whether or not the interview has started
ChatInput_AnyTime(user_input, o) ==
    /\ RunsMain
    /\ user_input # <<>>
    /\ UNCHANGED <<arbiter_vars, unit_vars, env_vars, recorder_vars, step_vars, interview_started>>
    /\ event' = Event("chat", <<>>, NoFile, <<>>, user_input)
    /\ LET h1 == Append(chat_history, Entry("user", user_input))
           response_prompt == <<"The candidate just said: ">> \o user_input
           r == generate_content(response_prompt, o)
       IN  IF r.kind = "raise"
           THEN /\ chat_history' = h1
                /\ calls' = <<Call("response", o, r, 0)>>
           ELSE /\ chat_history' = Append(h1, Entry("assistant", r.value))
                /\ calls' = <<Call("response", o, r, Len(h1) + 1)>>

\* a chat input that keeps the latest round only
ChatInput_KeepsLatestRound(user_input, o) ==
    /\ RunsMain
    /\ interview_started
    /\ user_input # <<>>
    /\ UNCHANGED <<arbiter_vars, unit_vars, env_vars, recorder_vars, step_vars, interview_started>>
    /\ event' = Event("chat", <<>>, NoFile, <<>>, user_input)
    /\ LET h1 == <<Entry("user", user_input)>>
           response_prompt == <<"The candidate just said: ">> \o user_input
           r == generate_content(response_prompt, o)
       IN  IF r.kind = "raise"
           THEN /\ chat_history' = h1
                /\ calls' = <<Call("response", o, r, 0)>>
           ELSE /\ chat_history' = Append(h1, Entry("assistant", r.value))
                /\ calls' = <<Call("response", o, r, Len(h1) + 1)>>

\* a response typed into st.chat_input, voice mode off (app.py:548-604)
ChatInput(user_input, o) ==
    /\ RunsMain
    /\ interview_started
    /\ user_input # <<>>
    /\ UNCHANGED <<arbiter_vars, unit_vars, env_vars, recorder_vars, step_vars, interview_started>>
    /\ event' = Event("chat", <<>>, NoFile, <<>>, user_input)
    /\ LET h1 == Append(chat_history, Entry("user", user_input))
           response_prompt == <<"The candidate just said: ">> \o user_input
           r == generate_content(response_prompt, o)
       IN  IF r.kind = "raise"
           THEN /\ chat_history' = h1
                /\ calls' = <<Call("response", o, r, 0)>>
           ELSE /\ chat_history' = Append(h1, Entry("assistant", r.value))
                /\ calls' = <<Call("response", o, r, Len(h1) + 1)>>

\* "Reset Interview" clicked (app.py:417-422)
ResetInterview ==
    /\ RunsMain
    /\ interview_started
    /\ chat_history' = <<>>
    /\ interview_started' = FALSE
    /\ calls' = <<>>
    /\ event' = Event("reset", <<>>, NoFile, <<>>, <<>>)
    /\ UNCHANGED <<arbiter_vars, unit_vars, env_vars, recorder_vars, step_vars>>

\* what the candidate may type
UserTexts == { <<"ok">>, <<"my", "resume", "job description">> }

\* any candidate turn
SubmitCandidateTurn ==
    \E text \in UserTexts, o \in Outcomes(service) : ChatInput(text, o)

Init ==
    /\ InitSession
    /\ messages = <<>>
    /\ last_speaker = None
    /\ next_speaker = "not_called"
    /\ service \in {"up", "down", "flaky", "closing"}
    /\ google_api_key \in ApiKeys

Next ==
    \/ \E name \in CandidateNames, file \in ResumeFiles, jd \in JobDescriptions,
          o1 \in Outcomes(service), o2 \in Outcomes(service) :
            StartInterview(name, file, jd, o1, o2)
    \/ (Len(chat_history) + 2 <= MaxHistory /\ SubmitCandidateTurn)
    \/ ResetInterview
    \/ \E agent \in GeminiAgents, o \in Outcomes(service) :
            GenerateReply(agent, <<>>, o)
    \/ ConstructAgent("TestAgent")

Spec == Init /\ [][Next]_vars

(***************************************************************************)
(* A long session: one candidate who always gives the same answer, with    *)
(* the service up all the time or down all the time                        *)
(***************************************************************************)
\* candidate turns in chat_history
roundCount == Cardinality({i \in DOMAIN chat_history : chat_history[i].role = "user"})

InitLong ==
    /\ InitSession
    /\ messages = <<>>
    /\ last_speaker = None
    /\ next_speaker = "not_called"
    /\ service \in {"up", "down"}
    /\ google_api_key = "valid-key"

NextLong ==
    \/ \E name \in {<<"A", "l">>, <<" ", "B", "o", " ">>},
          o1 \in Outcomes(service), o2 \in Outcomes(service) :
            StartInterview(name, [uploaded |-> TRUE, size |-> 1],
                           Repeat("x", MinJobDescriptionLen), o1, o2)
    \/ \E o \in Outcomes(service) : (roundCount < LongRounds /\ ChatInput(<<"ok">>, o))
    \/ ResetInterview

SpecLong == InitLong /\ [][NextLong]_vars

(***************************************************************************)
(* voice_module.py: listen_to_user and speak_to_user, called on their own  *)
(* as test_integration.py:24-87 calls them                                 *)
(***************************************************************************)
\* the exceptions the speech_recognition calls may raise: the three that
\* listen_to_user names, and one that it does not
ListenErrors == {"WaitTimeoutError", "UnknownValueError", "RequestError", "OSError"}

\* the steps of listen_to_user inside its try block: opening the microphone,
\* adjust_for_ambient_noise, listen, recognize_google, closing the microphone
ListenSteps == {"Microphone", "adjust_for_ambient_noise", "listen",
                "recognize_google", "Microphone.__exit__"}

\* what recognize_google may return
RecognizedTexts == { <<"Hello, this is a test">>, <<"Sorry", " to be late">>, <<>> }

\* what one call of listen_to_user meets: the step that raises ("none": no
\* step raises), the exception raised, and the text recognized
ListenOutcomes ==
    [failed : ListenSteps, error : ListenErrors, text : {<<>>}]
    \cup [failed : {"none"}, error : {"none"}, text : RecognizedTexts]

\* listen_to_user with the three named handlers only: another exception escapes
listen_to_user_NoCatchAll(outcome) ==
    IF outcome.failed = "none" THEN Return(outcome.text)
    ELSE IF outcome.error = "WaitTimeoutError"
         THEN Return(<<"Sorry", ", I didn't hear anything. Please try again.">>)
    ELSE IF outcome.error = "UnknownValueError"
         THEN Return(<<"Sorry", ", I couldn't understand what you said. Please try again.">>)
    ELSE IF outcome.error = "RequestError"
         THEN Return(<<"Sorry",
                ", there was an error with the speech recognition service. Please try again.">>)
    ELSE Raise(<<outcome.error>>)

\* listen_to_user (voice_module.py:104-145)
listen_to_user(outcome) ==
    IF outcome.failed = "none" THEN Return(outcome.text)
    ELSE IF outcome.error = "WaitTimeoutError"
         THEN Return(<<"Sorry", ", I didn't hear anything. Please try again.">>)
    ELSE IF outcome.error = "UnknownValueError"
         THEN Return(<<"Sorry", ", I couldn't understand what you said. Please try again.">>)
    ELSE IF outcome.error = "RequestError"
         THEN Return(<<"Sorry",
                ", there was an error with the speech recognition service. Please try again.">>)
    ELSE Return(<<"Sorry", ", an error occurred: ", outcome.error>>)

\* the steps of speak_to_user inside its try block
SpeakSteps == {"init", "say", "runAndWait"}

\* what is given to speak_to_user
SpokenTexts == { <<"Hello, this is a test">>, <<>> }

\* what one call of speak_to_user meets: the step that raises, or "none"
SpeakOutcomes == [failed : SpeakSteps \cup {"none"}]

\* a call made on the pyttsx3 engine
EngineCall(method, arg) == [method |-> method, arg |-> arg]

\* the calls speak_to_user makes on the engine until a step raises
EngineCalls(text, outcome) ==
    IF outcome.failed = "init" THEN <<>>
    ELSE IF outcome.failed = "say" THEN <<EngineCall("say", text)>>
    ELSE <<EngineCall("say", text), EngineCall("runAndWait", <<>>)>>

\* speak_to_user without its try/except: the TTS error escapes
speak_to_user_NoCatch(text, outcome) ==
    [kind |-> IF outcome.failed = "none" THEN "return" ELSE "raise",
     value |-> IF outcome.failed = "none" THEN <<>> ELSE <<"TTS Error">>,
     engine |-> EngineCalls(text, outcome)]

\* speak_to_user (voice_module.py:147-169): returns None whatever happens
speak_to_user(text, outcome) ==
    [kind |-> "return", value |-> <<>>, engine |-> EngineCalls(text, outcome)]

\* result = listen_to_user()
ListenToUser(outcome) ==
    /\ heard' = <<[outcome |-> outcome, result |-> listen_to_user(outcome)]>>
    /\ UNCHANGED <<arbiter_vars, session_vars, reply, constructed, spoken, env_vars, recorder_vars, step_vars>>

\* speak_to_user(text)
SpeakToUser(text, outcome) ==
    /\ spoken' = <<[text |-> text, outcome |-> outcome,
                    result |-> speak_to_user(text, outcome)]>>
    /\ UNCHANGED <<arbiter_vars, session_vars, reply, constructed, heard, env_vars, recorder_vars, step_vars>>

InitVoice ==
    /\ InitSession
    /\ messages = <<>>
    /\ last_speaker = None
    /\ next_speaker = "not_called"
    /\ service = "up"
    /\ google_api_key = "valid-key"

NextVoice ==
    \/ \E outcome \in ListenOutcomes : ListenToUser(outcome)
    \/ \E text \in SpokenTexts, outcome \in SpeakOutcomes : SpeakToUser(text, outcome)

SpecVoice == InitVoice /\ [][NextVoice]_vars

(***************************************************************************)
(* voice_module.py: background recording (start_listening, stop_listening, *)
(* is_recording) over the module-level variables of voice_module.py:12-15  *)
(***************************************************************************)
\* the three globals the functions read and assign
Recorder(recording, audio_data, stopper) ==
    [recording |-> recording, audio_data |-> audio_data, stop_listening |-> stopper]

\* their values now
TheRecorder == Recorder(_recording, _audio_data, _stop_listening)

\* the function listen_in_background returns
stopper == "stopper"

\* what the background listener may hand to audio_callback
Audios == {"audio"}

\* what one call of start_listening meets: the step of its try block that
\* raises, or "none"
StartOutcomes ==
    [failed : {"none", "Microphone", "adjust_for_ambient_noise", "listen_in_background"}]

\* what one call of stop_listening meets: the step that raises ("none": no
\* step raises), the exception raised, and the text recognized
StopOutcomes ==
    [failed : {"stopper", "recognize_google"},
     error : {"UnknownValueError", "RequestError", "OSError"}, text : {<<>>}]
    \cup [failed : {"none"}, error : {"none"}, text : RecognizedTexts]

\* start_listening without the test of _recording: a call made while
\* recording resets the audio and starts a second listener
start_listening_NoGuard(rec, outcome) ==
    IF outcome.failed = "none"
    THEN [result |-> TRUE, after |-> Recorder(TRUE, None, stopper)]
    ELSE [result |-> FALSE, after |-> [rec EXCEPT !.audio_data = None]]

\* start_listening (voice_module.py:17-49): what it returns and the globals
\* after it
start_listening(rec, outcome) ==
    IF rec.recording
    THEN [result |-> FALSE, after |-> rec]
    ELSE IF outcome.failed = "none"
         THEN [result |-> TRUE, after |-> Recorder(TRUE, None, stopper)]
         ELSE [result |-> FALSE, after |-> [rec EXCEPT !.audio_data = None]]

\* the inner try of stop_listening (voice_module.py:77-88)
Recognize(audio_data, outcome) ==
    IF outcome.failed # "recognize_google" THEN outcome.text
    ELSE IF outcome.error = "UnknownValueError"
         THEN <<"Sorry", ", I couldn't understand what you said. Please try again.">>
    ELSE IF outcome.error = "RequestError"
         THEN <<"Sorry",
                ", there was an error with the speech recognition service. Please try again.">>
    ELSE <<"Sorry", ", an error occurred: ", outcome.error>>

\* stop_listening whose outer handler forgets `_recording = False`
stop_listening_KeepsFlagOnError(rec, outcome) ==
    IF ~rec.recording
    THEN [result |-> <<"Not currently recording.">>, after |-> rec]
    ELSE IF rec.stop_listening # None /\ outcome.failed = "stopper"
         THEN [result |-> <<"Sorry", ", an error occurred: ", outcome.error>>,
               after |-> rec]
         ELSE [result |-> IF rec.audio_data = None
                          THEN <<"Sorry", ", I didn't hear anything. Please try again.">>
                          ELSE Recognize(rec.audio_data, outcome),
               after |-> [rec EXCEPT !.recording = FALSE, !.stop_listening = None]]

\* stop_listening (voice_module.py:51-92): what it returns and the globals
\* after it
stop_listening(rec, outcome) ==
    IF ~rec.recording
    THEN [result |-> <<"Not currently recording.">>, after |-> rec]
    ELSE IF rec.stop_listening # None /\ outcome.failed = "stopper"
         THEN [result |-> <<"Sorry", ", an error occurred: ", outcome.error>>,
               after |-> [rec EXCEPT !.recording = FALSE]]
         ELSE [result |-> IF rec.audio_data = None
                          THEN <<"Sorry", ", I didn't hear anything. Please try again.">>
                          ELSE Recognize(rec.audio_data, outcome),
               after |-> [rec EXCEPT !.recording = FALSE, !.stop_listening = None]]

\* is_recording (voice_module.py:94-102)
is_recording == _recording

\* the globals take the values a call left
SetRecorder(after) ==
    /\ _recording' = after.recording
    /\ _audio_data' = after.audio_data
    /\ _stop_listening' = after.stop_listening

\* a call and what it returned, added to the calls made
Logged(op, result) == Append(voice_log, [op |-> op, result |-> result])

\* success = start_listening()
StartListening(outcome) ==
    /\ Len(voice_log) < MaxVoiceCalls
    /\ LET r == start_listening(TheRecorder, outcome)
       IN  /\ SetRecorder(r.after)
           /\ voice_log' = Logged("start_listening", r.result)
    /\ UNCHANGED <<arbiter_vars, session_vars, unit_vars, env_vars, step_vars>>

\* user_input = stop_listening()
StopListening(outcome) ==
    /\ Len(voice_log) < MaxVoiceCalls
    /\ LET r == stop_listening(TheRecorder, outcome)
       IN  /\ SetRecorder(r.after)
           /\ voice_log' = Logged("stop_listening", r.result)
    /\ UNCHANGED <<arbiter_vars, session_vars, unit_vars, env_vars, step_vars>>

\* audio_callback (voice_module.py:34-36), run by the listener thread while
\* the listener started by listen_in_background is alive
AudioCallback(audio) ==
    /\ _stop_listening # None
    /\ _audio_data # audio
    /\ _audio_data' = audio
    /\ UNCHANGED <<arbiter_vars, session_vars, unit_vars, env_vars, step_vars,
                   _recording, _stop_listening, voice_log>>

InitRecorder ==
    /\ InitSession
    /\ messages = <<>>
    /\ last_speaker = None
    /\ next_speaker = "not_called"
    /\ service = "up"
    /\ google_api_key = "valid-key"

NextRecorder ==
    \/ \E outcome \in StartOutcomes : StartListening(outcome)
    \/ \E outcome \in StopOutcomes : StopListening(outcome)
    \/ \E audio \in Audios : AudioCallback(audio)

SpecRecorder == InitRecorder /\ [][NextRecorder]_vars

(***************************************************************************)
(* main() with the voice mode: the "Start Speaking" / "Stop Speaking"      *)
(* button (app.py:317-415) beside the typed responses                      *)
(***************************************************************************)
\* the speak_toggle button clicked, voice mode on (app.py:317-409)
SpeakButton(start_outcome, stop_outcome, o, speak_outcome) ==
    /\ RunsMain
    /\ interview_started
    /\ Len(voice_log) < MaxVoiceCalls
    /\ UNCHANGED <<arbiter_vars, env_vars, step_vars, interview_started, reply,
                   constructed, heard>>
    /\ IF is_recording
       THEN LET stopped == stop_listening(TheRecorder, stop_outcome)
                user_input == stopped.result
            IN  /\ SetRecorder(stopped.after)
                /\ voice_log' = Logged("stop_listening", user_input)
                /\ event' = Event("voice_stop", <<>>, NoFile, <<>>, user_input)
                /\ IF user_input # <<>> /\ ~StartsWith(user_input, "Sorry")
                   THEN LET h1 == Append(chat_history, Entry("user", user_input))
                            response_prompt ==
                                <<"The candidate just said: ">> \o user_input
                            r == generate_content(response_prompt, o)
                        IN  IF r.kind = "raise"
                            THEN /\ chat_history' = h1
                                 /\ calls' = <<Call("response", o, r, 0)>>
                                 /\ UNCHANGED spoken
                            ELSE /\ chat_history' =
                                        Append(h1, Entry("assistant", r.value))
                                 /\ calls' = <<Call("response", o, r, Len(h1) + 1)>>
                                 /\ spoken' =
                                      <<[text |-> r.value, outcome |-> speak_outcome,
                                         result |-> speak_to_user(r.value, speak_outcome)]>>
                   ELSE /\ calls' = <<>>
                        /\ UNCHANGED <<chat_history, spoken>>
       ELSE LET started == start_listening(TheRecorder, start_outcome)
            IN  /\ SetRecorder(started.after)
                /\ voice_log' = Logged("start_listening", started.result)
                /\ event' = Event("voice_start", <<>>, NoFile, <<>>, <<>>)
                /\ calls' = <<>>
                /\ UNCHANGED <<chat_history, spoken>>

InitVoiceSession ==
    /\ InitSession
    /\ messages = <<>>
    /\ last_speaker = None
    /\ next_speaker = "not_called"
    /\ service = "flaky"
    /\ google_api_key = "valid-key"

NextVoiceSession ==
    \/ \E jd \in {<<>>, Repeat("x", MinJobDescriptionLen)},
          o1 \in Outcomes(service), o2 \in Outcomes(service) :
            StartInterview(<<"A", "l">>, [uploaded |-> TRUE, size |-> 1], jd, o1, o2)
    \/ StartIgnored(<<"A", "l">>, [uploaded |-> TRUE, size |-> 1], <<>>)
    \/ (Len(chat_history) + 2 <= MaxHistory /\ SubmitCandidateTurn)
    \/ \E start_outcome \in {[failed |-> "none"], [failed |-> "Microphone"]} :
            (~is_recording
             /\ SpeakButton(start_outcome, [failed |-> "none", error |-> "none",
                                            text |-> <<>>],
                            [raises |-> FALSE, payload |-> <<"reply">>],
                            [failed |-> "none"]))
    \/ \E stop_outcome \in StopOutcomes, o \in Outcomes(service),
          speak_outcome \in {[failed |-> "none"], [failed |-> "init"]} :
            (is_recording /\ Len(chat_history) + 2 <= MaxHistory
             /\ SpeakButton([failed |-> "none"], stop_outcome, o, speak_outcome))
    \/ \E audio \in Audios : AudioCallback(audio)
    \/ ResetInterview

SpecVoiceSession == InitVoiceSession /\ [][NextVoiceSession]_vars

(***************************************************************************)
(* main() statement by statement around its generate_content calls         *)
(* (app.py:470-543, 552-583). A run of main() is one synchronous function: *)
(* it makes its next call when the previous one has returned, and the next *)
(* run of the session starts when this one has ended.                      *)
(***************************************************************************)
\* a generate_content call that has been made
Pending(site, prompt) == [site |-> site, prompt |-> prompt]

\* a start that sends the analysis and the questions requests together
CallsAfterSeed_Together(candidate_name, job_description) ==
    << Pending("analysis", <<"Resume: ", "Sample resume text for ">> \o candidate_name
                           \o <<"Job Description: ">> \o job_description),
       Pending("questions", <<"Based on this analysis: ">>) >>

\* the call made after the system entry is appended (app.py:485-499)
CallsAfterSeed(candidate_name, job_description) ==
    << Pending("analysis", <<"Resume: ", "Sample resume text for ">> \o candidate_name
                           \o <<"Job Description: ">> \o job_description) >>

\* the call made once the call of `site` has returned `value`
\* (app.py:507-519): the questions are asked about the analysis
CallsAfter(site, value) ==
    IF site = "analysis"
    THEN << Pending("questions", <<"Based on this analysis: ">> \o value) >>
    ELSE <<>>

\* the content of the entry built from what the call of `site` returned
\* (app.py:502-505, 522-525, 574-577)
ContentFor(site, value) ==
    IF site = "analysis" THEN <<"Resume Analysis:">> \o value
    ELSE IF site = "questions" THEN <<"Interview Questions:">> \o value
    ELSE value

\* "Start Interview" up to the first generate_content call (app.py:433-495)
BeginStart(candidate_name, resume_file, job_description) ==
    /\ RunsMain
    /\ in_flight = <<>>
    /\ StartHandled(TRUE, interview_started)
    /\ ValidationErrors(candidate_name, resume_file, job_description) = <<>>
    /\ chat_history' = Append(chat_history,
            Entry("system", <<"Interview started for candidate: ">> \o candidate_name))
    /\ interview_started' = TRUE
    /\ calls' = <<>>
    /\ event' = Event("start", candidate_name, resume_file, job_description, <<>>)
    /\ in_flight' = CallsAfterSeed(candidate_name, job_description)
    /\ UNCHANGED <<arbiter_vars, unit_vars, env_vars, recorder_vars>>

\* a typed response up to its generate_content call (app.py:548-572)
BeginChat(user_input) ==
    /\ RunsMain
    /\ in_flight = <<>>
    /\ interview_started
    /\ user_input # <<>>
    /\ chat_history' = Append(chat_history, Entry("user", user_input))
    /\ calls' = <<>>
    /\ event' = Event("chat", <<>>, NoFile, <<>>, user_input)
    /\ in_flight' = << Pending("response", <<"The candidate just said: ">> \o user_input) >>
    /\ UNCHANGED <<arbiter_vars, unit_vars, env_vars, recorder_vars, interview_started>>

\* the pending generate_content call returns (or raises) and main() goes on to
\* its next call or to its end (app.py:495-525, 540-543, 568-577, 599-600)
ReturnCall(o) ==
    /\ in_flight # <<>>
    /\ LET c == Head(in_flight)
           r == generate_content(c.prompt, o)
       IN  IF r.kind = "raise"
           THEN /\ in_flight' = <<>>
                /\ calls' = Append(calls, Call(c.site, o, r, 0))
                /\ interview_started' = (interview_started /\ c.site = "response")
                /\ UNCHANGED chat_history
           ELSE /\ chat_history' =
                      Append(chat_history, Entry("assistant", ContentFor(c.site, r.value)))
                /\ calls' = Append(calls, Call(c.site, o, r, Len(chat_history) + 1))
                /\ in_flight' = Tail(in_flight) \o CallsAfter(c.site, r.value)
                /\ UNCHANGED interview_started
    /\ UNCHANGED <<arbiter_vars, unit_vars, env_vars, recorder_vars, event>>

\* the run of main() is ended while its call is pending (the script is
\* stopped): what the call would have returned is dropped
AbortRun ==
    /\ in_flight # <<>>
    /\ in_flight' = <<>>
    /\ UNCHANGED <<arbiter_vars, session_vars, unit_vars, env_vars, recorder_vars>>

InitSteps ==
    /\ InitSession
    /\ messages = <<>>
    /\ last_speaker = None
    /\ next_speaker = "not_called"
    /\ service = "flaky"
    /\ google_api_key = "valid-key"

NextSteps ==
    \/ \E name \in {<<"A", "l">>, <<" ", "B", "o", " ">>} :
            BeginStart(name, [uploaded |-> TRUE, size |-> 1],
                       Repeat("x", MinJobDescriptionLen))
    \/ \E text \in UserTexts :
            (Len(chat_history) + 2 <= MaxHistory /\ BeginChat(text))
    \/ \E o \in Outcomes(service) : ReturnCall(o)
    \/ AbortRun
    \/ (in_flight = <<>> /\ ResetInterview)

SpecSteps == InitSteps /\ [][NextSteps]_vars

(***************************************************************************)
(* What the claims speak of, stated without the operators of the code      *)
(***************************************************************************)
\* the call has been made and next_speaker holds its result
Called == next_speaker # "not_called"

\* words holding "resume" in some letter case
ResumeWords == {"resume", "Resume", "RESUME", "Resume Analysis:", "resume analysis:"}

\* words holding "job description" in some letter case
JobDescriptionWords == {"job description", "Job Description", "JOB DESCRIPTION"}

MentionsResume(s) == \E i \in DOMAIN s : s[i] \in ResumeWords

MentionsJobDescription(s) == \E i \in DOMAIN s : s[i] \in JobDescriptionWords

\* the literal token TERMINATE
MentionsTerminate(s) == \E i \in DOMAIN s : s[i] = "TERMINATE"

\* the content of the most recent turn of the transcript
RecentContent == messages[Len(messages)].content

\* C1: called with last_speaker = None on a transcript whose most recent turn
\* holds both "resume" and "job description" in any letter case, the speaker
\* selection returns the resume analyzer.
C1_SeedSelectsAnalyzer ==
    (Called /\ last_speaker = None /\ messages # <<>>
        /\ MentionsResume(RecentContent) /\ MentionsJobDescription(RecentContent))
    => next_speaker = resume_analyzer_agent

\* C1 witness: the call was made with None on a seed written in mixed case
C1_Witness ==
    /\ Called /\ last_speaker = None /\ messages # <<>>
    /\ RecentContent = <<"Resume", "ok", "JOB DESCRIPTION">>
    /\ next_speaker = resume_analyzer_agent

\* C2: when the transcript ends with an interviewer turn holding TERMINATE
\* followed by one candidate turn, the speaker selection called with the
\* candidate as last speaker returns the evaluator.
C2_TerminateThenCandidateSelectsEvaluator ==
    (Called /\ last_speaker = user_proxy_agent /\ Len(messages) >= 2
        /\ messages[Len(messages)].name = user_proxy_agent
        /\ messages[Len(messages) - 1].name = interviewer_agent
        /\ MentionsTerminate(messages[Len(messages) - 1].content))
    => next_speaker = evaluator_agent

C4_AnalyzerThenQuestionGenerator ==
    (Called /\ last_speaker = resume_analyzer_agent)
    => next_speaker = question_generator_agent

\* C4 witness: the last message holds both markers and TERMINATE
C4_Witness ==
    /\ Called /\ last_speaker = resume_analyzer_agent /\ messages # <<>>
    /\ MentionsResume(RecentContent) /\ MentionsJobDescription(RecentContent)
    /\ MentionsTerminate(RecentContent)
    /\ next_speaker = question_generator_agent

\* C5: called with the question generator as last speaker, the speaker
\* selection returns the interviewer whatever the transcript holds.
C5_QuestionGeneratorThenInterviewer ==
    (Called /\ last_speaker = question_generator_agent)
    => next_speaker = interviewer_agent

\* C5 witness: the call was made on a transcript whose last message holds
\* both markers
C5_Witness ==
    /\ Called /\ last_speaker = question_generator_agent /\ messages # <<>>
    /\ MentionsResume(RecentContent) /\ MentionsJobDescription(RecentContent)
    /\ next_speaker = interviewer_agent

\* C6: called with the interviewer as last speaker, the speaker selection
\* returns the candidate, also when the interviewer's turn holds TERMINATE or
\* the markers; it never returns the evaluator.
C6_InterviewerThenCandidate ==
    (Called /\ last_speaker = interviewer_agent)
    => (next_speaker = user_proxy_agent /\ next_speaker # evaluator_agent)

\* C6 witness: the interviewer's own turn, the last one, holds TERMINATE
C6_Witness ==
    /\ Called /\ last_speaker = interviewer_agent /\ messages # <<>>
    /\ messages[Len(messages)].name = interviewer_agent
    /\ MentionsTerminate(RecentContent)
    /\ next_speaker = user_proxy_agent

\* every assistant entry of chat_history
AssistantTurns == {i \in DOMAIN chat_history : chat_history[i].role = "assistant"}

\* the round ceiling is hit: the one way a main() session, in which the
\* evaluator never speaks, can be over
terminated == roundCount >= max_round

\* C7: roundCount never exceeds the ceiling of 50 rounds, whatever the
\* candidate and the agents say.
C7_RoundCountWithinCeiling == roundCount <= max_round

\* C8: once the session is terminated, a further candidate turn leaves the
\* transcript (and so roundCount) unchanged and invokes no agent.
C8_TerminatedRejectsCandidateTurn ==
    [][(terminated /\ SubmitCandidateTurn)
        => (chat_history' = chat_history /\ calls' = <<>>)]_vars

\* C9: with the generation service raising on every call, every agent
\* invocation yields a turn whose content starts with "Error: ", no exception
\* escapes, and the session runs to roundCount = 50 and halts there.
C9_ServiceDownRunsToCeiling ==
    service = "down" =>
        /\ \A i \in AssistantTurns : StartsWith(chat_history[i].content, "Error: ")
        /\ \A i \in DOMAIN calls : calls[i].result.kind = "return"
        /\ roundCount <= max_round
        /\ (roundCount = max_round => ~ENABLED SubmitCandidateTurn)

\* a failed generate_reply call gave back a string starting with "Error: "
FailureReturnsErrorString ==
    \A i \in DOMAIN reply : reply[i].raised =>
        (reply[i].result.kind = "return"
         /\ StartsWith(reply[i].result.value, "Error: "))

Heading(site) ==
    CASE site = "analysis" -> <<"Resume Analysis:">>
      [] site = "questions" -> <<"Interview Questions:">>
      [] OTHER -> <<>>

JobDescriptionRefused(jd) ==
    Cardinality({i \in DOMAIN jd : jd[i] # " "}) = 0 \/ Len(Strip(jd)) < MinJobDescriptionLen

\* C11: after "Start Interview" with a job description that is empty, blank or
\* too short, chat_history is empty, interview_started is false and no
\* generate_content call was made.
C11_BadJobDescriptionRejected ==
    (event.kind = "start" /\ JobDescriptionRefused(event.job_description))
    => (chat_history = <<>> /\ ~interview_started /\ calls = <<>>)

\* C11 witness: a start whose name and resume are fine and whose job
\* description is blank was refused
C11_Witness ==
    /\ event.kind = "start"
    /\ event.job_description = Repeat(" ", 3)
    /\ event.candidate_name = <<"A", "l">>
    /\ event.resume_file = [uploaded |-> TRUE, size |-> 1]
    /\ chat_history = <<>>
    /\ ~interview_started

\* GOOGLE_API_KEY is unset, empty or the placeholder
KeyUnconfigured == google_api_key \in {None, "", "YOUR_GEMINI_API_KEY_HERE"}

SameInputsAsFirstCall ==
    /\ first_call # <<>>
    /\ first_call[1].last_speaker = last_speaker
    /\ first_call[1].messages = messages

C14_ArbiterNeverThrows ==
    Called =>
        /\ next_speaker \in agents \cup {None}
        /\ (messages = <<>> /\ last_speaker \in {None, user_proxy_agent}
                => next_speaker = interviewer_agent)

\* C14 witness: the call was made with None on the empty transcript
C14_Witness ==
    /\ Called
    /\ messages = <<>>
    /\ last_speaker = None
    /\ next_speaker = interviewer_agent

\* agent a has a turn before the most recent turn
SpokeEarlier(a) == \E i \in 1..(Len(messages) - 1) : messages[i].name = a

\* the most recent turn is the candidate's and the call is made for it
CandidateJustSpoke ==
    /\ messages # <<>>
    /\ messages[Len(messages)].name = user_proxy_agent
    /\ last_speaker = user_proxy_agent

\* C15: once the analyzer has a turn in the transcript, a call made after a
\* later candidate turn never returns the analyzer or the question generator,
\* whatever the candidate wrote.
C15_NoReturnToAnalysis ==
    (Called /\ CandidateJustSpoke /\ SpokeEarlier(resume_analyzer_agent))
    => next_speaker \notin {resume_analyzer_agent, question_generator_agent}

\* positions of the interviewer's turns
InterviewerTurns == {i \in DOMAIN messages : messages[i].name = interviewer_agent}

\* position of the interviewer's last turn
LastInterviewerTurn ==
    CHOOSE i \in InterviewerTurns : \A j \in InterviewerTurns : j <= i

\* C18: called for a candidate turn on a transcript whose last interviewer
\* turn does not hold TERMINATE, the speaker selection returns the
\* interviewer, whatever the candidate's turn holds.
C18_CandidateThenInterviewer ==
    (Called /\ CandidateJustSpoke /\ InterviewerTurns # {}
        /\ ~MentionsTerminate(messages[LastInterviewerTurn].content))
    => next_speaker = interviewer_agent

\* the most recent turn lacks the resume marker or the job-description marker
\* (there may be no turn at all)
SeedIncomplete ==
    messages # <<>> =>
        ~(MentionsResume(RecentContent) /\ MentionsJobDescription(RecentContent))

\* C19: called with None when the most recent turn lacks one of the two
\* markers, the speaker selection returns the evaluator if that turn is the
\* interviewer's and holds TERMINATE, and the interviewer in every other case,
\* the empty transcript included.
C19_NoneWithoutSeed ==
    (Called /\ last_speaker = None /\ SeedIncomplete)
    => next_speaker =
         IF messages # <<>> /\ messages[Len(messages)].name = interviewer_agent
         THEN (IF MentionsTerminate(RecentContent)
               THEN evaluator_agent ELSE interviewer_agent)
         ELSE interviewer_agent

\* C20: called with a last speaker that is neither None nor one of the five
\* agents, the speaker selection returns the candidate, on every transcript.
C20_UnknownSpeakerDefaultsToCandidate ==
    (Called /\ last_speaker \notin agents \cup {None})
    => next_speaker = user_proxy_agent

\* C20 witness: an unknown last speaker on a transcript that holds the seed
\* markers and TERMINATE
C20_Witness ==
    /\ Called
    /\ last_speaker = other_agent
    /\ messages # <<>>
    /\ RecentContent = <<"resume", "Job Description", "TERMINATE">>
    /\ next_speaker = user_proxy_agent


\* C16: every call of listen_to_user returned; when a step of it failed, with
\* any of the exceptions, the string returned begins with "Sorry"; when no
\* step failed, the string returned is the recognized text.
C16_ListenNeverRaises ==
    \A i \in DOMAIN heard :
        /\ heard[i].result.kind = "return"
        /\ (heard[i].outcome.failed # "none"
                => heard[i].result.value # <<>> /\ heard[i].result.value[1] = "Sorry")
        /\ (heard[i].outcome.failed = "none"
                => heard[i].result.value = heard[i].outcome.text)

\* C16 witness: recognize_google raised an exception that listen_to_user does
\* not name, and the call returned an apology
C16_Witness ==
    /\ heard # <<>>
    /\ heard[1].outcome.failed = "recognize_google"
    /\ heard[1].outcome.error = "OSError"
    /\ heard[1].result.kind = "return"
    /\ heard[1].result.value[1] = "Sorry"

\* C17: every call of speak_to_user returned; when no step failed, the engine
\* was given say(text) once and then runAndWait once, and nothing else.
C17_SpeakNeverRaises ==
    \A i \in DOMAIN spoken :
        /\ spoken[i].result.kind = "return"
        /\ (spoken[i].outcome.failed = "none"
                => spoken[i].result.engine =
                     << [method |-> "say", arg |-> spoken[i].text],
                        [method |-> "runAndWait", arg |-> <<>>] >>)

\* C17 witness: pyttsx3.init raised and the call returned
C17_Witness ==
    /\ spoken # <<>>
    /\ spoken[1].outcome.failed = "init"
    /\ spoken[1].result.kind = "return"
    /\ spoken[1].result.engine = <<>>


\* the entry at position i is a reply of the interviewer to a candidate turn
\* (the three entries of the session start come first) and holds TERMINATE
ClosingReplyAt(i) ==
    /\ i \in DOMAIN chat_history
    /\ i > 3
    /\ chat_history[i].role = "assistant"
    /\ MentionsTerminate(chat_history[i].content)

\* C21: once a reply of the interviewer held TERMINATE and the candidate has
\* answered it, the session goes to its evaluation and ends: the interviewer
\* is not asked for a further reply.
C21_TerminateLeadsToEvaluation ==
    \A i \in DOMAIN chat_history :
        (ClosingReplyAt(i) /\ i + 1 \in DOMAIN chat_history
            /\ chat_history[i + 1].role = "user")
        => ~(\E c \in DOMAIN calls :
                calls[c].site = "response" /\ calls[c].turn = i + 2)


\* C22: the controller records the end of the session at the step at which
\* roundCount reaches the ceiling: from that step on the session is no longer
\* running (st.session_state holds no other flag than interview_started).
C22_TerminationRecordedAtCeiling ==
    [][(roundCount < max_round /\ roundCount' = max_round) => ~interview_started']_vars


\* positions of the calls that decide whether a recording is on: the starts
\* that returned True and the stops
DecisiveCalls ==
    {i \in DOMAIN voice_log :
        \/ voice_log[i].op = "stop_listening"
        \/ (voice_log[i].op = "start_listening" /\ voice_log[i].result = TRUE)}

\* the latest of them is a start
StartedAndNotStopped ==
    /\ DecisiveCalls # {}
    /\ \E i \in DecisiveCalls :
          /\ \A j \in DecisiveCalls : j <= i
          /\ voice_log[i].op = "start_listening"

\* C26: after any calls of start_listening and stop_listening, is_recording()
\* is true exactly when the latest start that returned True has no stop after
\* it, whatever failed in the calls.
C26_RecordingFlagFollowsCalls == is_recording = StartedAndNotStopped

\* C26 witness: a recording was started and its stop failed in the stopper;
\* the flag is down
C26_Witness ==
    /\ Len(voice_log) >= 2
    /\ voice_log[Len(voice_log) - 1].op = "start_listening"
    /\ voice_log[Len(voice_log) - 1].result = TRUE
    /\ voice_log[Len(voice_log)].op = "stop_listening"
    /\ voice_log[Len(voice_log)].result = <<"Sorry", ", an error occurred: ", "OSError">>
    /\ _stop_listening # None
    /\ ~is_recording

\* the step is a call of op
JustCalled(op) ==
    /\ Len(voice_log') = Len(voice_log) + 1
    /\ voice_log'[Len(voice_log')].op = op

\* C27: start_listening called while recording returns False and
\* stop_listening called while not recording returns "Not currently
\* recording."; both leave _recording, _audio_data and _stop_listening as
\* they were.
C27_WrongStateCallsRejected ==
    [][ /\ (JustCalled("start_listening") /\ _recording)
            => /\ voice_log'[Len(voice_log')].result = FALSE
               /\ UNCHANGED <<_recording, _audio_data, _stop_listening>>
        /\ (JustCalled("stop_listening") /\ ~_recording)
            => /\ voice_log'[Len(voice_log')].result = <<"Not currently recording.">>
               /\ UNCHANGED <<_recording, _audio_data, _stop_listening>>
      ]_vars

\* C27 witness: audio was captured, and a second start_listening was refused
\* while the recording went on with that audio
C27_Witness ==
    /\ Len(voice_log) >= 2
    /\ voice_log[Len(voice_log) - 1].op = "start_listening"
    /\ voice_log[Len(voice_log) - 1].result = TRUE
    /\ voice_log[Len(voice_log)].op = "start_listening"
    /\ voice_log[Len(voice_log)].result = FALSE
    /\ _recording
    /\ _audio_data = "audio"


\* the content without its TERMINATE tokens
RECURSIVE DropTerminate(_)
DropTerminate(content) ==
    IF content = <<>> THEN <<>>
    ELSE IF Head(content) = "TERMINATE" THEN DropTerminate(Tail(content))
    ELSE <<Head(content)>> \o DropTerminate(Tail(content))

\* the transcript with TERMINATE taken out of every message
WithoutTerminate(msgs) ==
    [i \in DOMAIN msgs |-> [msgs[i] EXCEPT !.content = DropTerminate(@)]]

\* the transcript with TERMINATE put at the end of every message
WithTerminate(msgs) ==
    [i \in DOMAIN msgs |-> [msgs[i] EXCEPT !.content = Append(@, "TERMINATE")]]

IsPrefix(a, b) == Len(a) <= Len(b) /\ SubSeq(b, 1, Len(a)) = a

\* C23 as stated: every step of the session leaves the entries of
\* chat_history in place and only adds entries after them.
C23_TranscriptAppendOnly == [][IsPrefix(chat_history, chat_history')]_vars

\* C23: every step of the session other than "Reset Interview" leaves the
\* entries of chat_history in place and only adds entries after them, on the
\* error paths too; "Reset Interview" empties chat_history.
C23_AppendOnlyUntilReset ==
    [][ \/ IsPrefix(chat_history, chat_history')
        \/ (ResetInterview /\ chat_history' = <<>>) ]_vars

\* C23 witness: a typed response whose generation failed was added after the
\* three entries of the session start
C23_Witness ==
    /\ event.kind = "chat"
    /\ Len(chat_history) >= 5
    /\ chat_history[1].role = "system"
    /\ chat_history[Len(chat_history) - 1] = Entry("user", event.user_input)
    /\ chat_history[Len(chat_history)].content[1] = "Error: "

\* what stop_listening gave back is empty or begins with "Sorry"
NothingHeard(user_input) == user_input = <<>> \/ user_input[1] = "Sorry"

\* C28: a run of main() in which stop_listening gave back an empty string or
\* one beginning with "Sorry" leaves chat_history as it was and calls no
\* generation; a run in which it gave back anything else adds the user turn
\* holding that text.
C28_UnheardVoiceInputIgnored ==
    [][ (event'.kind = "voice_stop" /\ session_vars' # session_vars)
        => IF NothingHeard(event'.user_input)
           THEN chat_history' = chat_history /\ calls' = <<>>
           ELSE /\ Len(chat_history') > Len(chat_history)
                /\ IsPrefix(chat_history, chat_history')
                /\ chat_history'[Len(chat_history) + 1] = Entry("user", event'.user_input)
      ]_vars

\* C28 witness: the candidate's recorded words began with "Sorry", and the
\* history still ends with the questions of the session start
C28_Witness ==
    /\ event.kind = "voice_stop"
    /\ event.user_input = <<"Sorry", " to be late">>
    /\ Len(chat_history) = 3
    /\ calls = <<>>
    /\ ~is_recording

\* C29: a candidate turn is added only while interview_started is true, and
\* a chat_history that is not empty begins with the system entry "Interview
\* started for candidate: ...".
C29_HistoryBeginsWithSeed ==
    [][ /\ (roundCount' > roundCount => interview_started)
        /\ (chat_history' # <<>>
              => /\ chat_history'[1].role = "system"
                 /\ chat_history'[1].content[1] = "Interview started for candidate: ")
      ]_vars

\* C29 witness: a typed turn and a spoken turn follow the three entries of
\* the session start
C29_Witness ==
    /\ interview_started
    /\ Len(chat_history) = 7
    /\ chat_history[1].role = "system"
    /\ chat_history[4].role = "user"
    /\ chat_history[6].role = "user"
    /\ event.kind = "voice_stop"

\* C30: a run of main() for a click on "Start Interview" made while
\* interview_started is true leaves chat_history and interview_started as
\* they were and calls no generation; interview_started goes back to false
\* only by "Reset Interview", which empties chat_history.
C30_StartIgnoredWhileStarted ==
    [][ /\ (interview_started /\ event'.kind \in {"start", "start_ignored"}
              /\ session_vars' # session_vars)
            => (chat_history' = chat_history /\ interview_started' /\ calls' = <<>>)
        /\ (interview_started /\ ~interview_started')
            => (event'.kind = "reset" /\ chat_history' = <<>>)
      ]_vars

\* C30 witness: "Start Interview" was clicked with an empty job description
\* after a candidate turn, and the interview goes on
C30_Witness ==
    /\ event.kind = "start_ignored"
    /\ event.job_description = <<>>
    /\ interview_started
    /\ Len(chat_history) >= 5
    /\ calls = <<>>


\* the step adds an assistant entry to chat_history
AssistantEntryAdded ==
    /\ Len(chat_history') > Len(chat_history)
    /\ chat_history'[Len(chat_history')].role = "assistant"

====
